---- MODULE Spec2Model ----
(***************************************************************************)
(* Model of the Guardian request dispatcher (src-tauri/src/main.rs) and    *)
(* of the Groq provider adapter (src-tauri/src/llm_provider.rs).           *)
(*                                                                         *)
(* Text is modelled as a sequence of tokens (strings); concatenation of    *)
(* text (push_str, format!) is concatenation of token sequences.  A        *)
(* literal of the source is one token.                                     *)
(***************************************************************************)
EXTENDS Integers, Sequences, FiniteSets, TLC

VARIABLES archetypes, pc, request, provider_request, response, result,
          network, responses, askCount, sendCount

vars == <<archetypes, pc, request, provider_request, response, result,
          network, responses, askCount, sendCount>>

(***************************************************************************)
(* Bounds                                                                  *)
(***************************************************************************)
MaxDispatch == 2

Slots == 1..MaxDispatch

(***************************************************************************)
(* Data types of llm_provider.rs                                           *)
(***************************************************************************)
None == [some |-> FALSE, value |-> <<>>]

Some(t) == [some |-> TRUE, value |-> t]

AppRequest(p, a, u) == [prompt |-> p, archetype |-> a, user_system_prompt |-> u]

ProviderRequest(fp, m) == [full_prompt |-> fp, model_name |-> m]

LLMResponse(c) == [content |-> c]

Ok(v) == [ok |-> TRUE, value |-> v, err |-> <<>>]

Err(e) == [ok |-> FALSE, value |-> LLMResponse(<<>>), err |-> e]

\* anyhow::Error is a chain of messages, outermost first.
anyhow(msg) == <<msg>>

context(cause, msg) == <<msg>> \o cause

\* Display of anyhow::Error ("{}"): the outermost message only.
to_string(e) == Head(e)

(***************************************************************************)
(* Literals of the source                                                  *)
(***************************************************************************)
InstructionsHeader == "\n\n--- User's Instructions ---\n"

PromptHeader == "\n\n--- User's Prompt ---\n"

ApiUrl == "https://api.groq.com/openai/v1/chat/completions"

ApiKey == "GROQ_API_KEY"

groq_provider == [api_key |-> ApiKey]

providers == [groq |-> groq_provider]

\* Both inserts under the key "Scout": the second replaces the first.
main_archetypes_same_key ==
  [n \in {"Scout"} |->
     [system_prompt |-> <<"You are the Architect. You are logical, structured, and deep. Ideal for planning, analysis, and complex problem-solving.">>,
      model_name |-> "llama3-70b-8192",
      provider |-> "groq"]]

\* The table main() builds before the application runs.
main_archetypes ==
  [n \in {"Scout", "Architect"} |->
     IF n = "Scout"
     THEN [system_prompt |-> <<"You are the Scout. You are fast, versatile, and conversational. Perfect for quick questions, brainstorming, and daily dialogue.">>,
           model_name |-> "llama3-8b-8192",
           provider |-> "groq"]
     ELSE [system_prompt |-> <<"You are the Architect. You are logical, structured, and deep. Ideal for planning, analysis, and complex problem-solving.">>,
           model_name |-> "llama3-70b-8192",
           provider |-> "groq"]]

(***************************************************************************)
(* Inputs                                                                  *)
(***************************************************************************)
\* Requests of the concurrent specification.
Requests ==
  {AppRequest(<<"hi">>, a, u) :
     a \in {"Scout", "Architect", "NonexistentMode"},
     u \in {None, Some(<<"be brief">>)}}

\* Requests of the single-dispatch specification: exact-match lookups,
\* empty texts, and user text that itself holds a header.
ComposeRequests ==
  {AppRequest(p, a, u) :
     p \in {<<>>, <<"hi">>, <<PromptHeader, "x">>},
     a \in {"Scout", "Architect", "NonexistentMode", "scout"},
     u \in {None, Some(<<>>), Some(<<"be brief">>), Some(<<PromptHeader, "y">>)}}

Statuses == {200, 401}

JsonBody(cs) == [kind |-> "json", choices |-> cs]

MalformedBody == [kind |-> "malformed", choices |-> <<>>]

Bodies == {MalformedBody, JsonBody(<<>>), JsonBody(<< <<"hello">> >>),
           JsonBody(<< <<"hello">>, <<"bye">> >>)}

TransportCauses == {"connection refused", "operation timed out"}

ParseCause == "expected value at line 1 column 1"

(***************************************************************************)
(* ask_guardian: lookup and prompt composition                             *)
(***************************************************************************)
NoArchetype == [system_prompt |-> <<>>, model_name |-> "", provider |-> ""]

getOrFirst(reg, name) ==
  IF name \in DOMAIN reg THEN Some(reg[name]) ELSE Some(reg["Scout"])

\* HashMap::get: exact match on the key.
get(reg, name) ==
  IF name \in DOMAIN reg THEN Some(reg[name]) ELSE [some |-> FALSE, value |-> NoArchetype]

NotFoundMessageNoName(name) == <<"Archetype '", "' not found.">>

\* format!("Archetype '{}' not found.", request.archetype)
NotFoundMessage(name) == <<"Archetype '", name, "' not found.">>

ComposeInstructionsLast(archetype, req) ==
  archetype.system_prompt
    \o <<PromptHeader>> \o req.prompt
    \o (IF req.user_system_prompt.some
        THEN <<InstructionsHeader>> \o req.user_system_prompt.value
        ELSE <<>>)

\* full_prompt_content of ask_guardian.
Compose(archetype, req) ==
  archetype.system_prompt
    \o (IF req.user_system_prompt.some
        THEN <<InstructionsHeader>> \o req.user_system_prompt.value
        ELSE <<>>)
    \o <<PromptHeader>> \o req.prompt

(***************************************************************************)
(* GroqProvider::ask                                                       *)
(***************************************************************************)
\* The POST that ask puts on the wire for the call of slot d.
HttpPost(d, provider, pr) ==
  [conn |-> d,
   url |-> ApiUrl,
   bearer |-> provider.api_key,
   body |-> [model |-> pr.model_name,
             messages |-> << [role |-> "user", content |-> pr.full_prompt] >>]]

NoBody == [kind |-> "none", choices |-> <<>>]

NoResponse == [conn |-> 0, kind |-> "none", status |-> 0, body |-> NoBody, cause |-> ""]

HttpResponse(d, s, b) == [conn |-> d, kind |-> "http", status |-> s, body |-> b, cause |-> ""]

SendError(d, c) == [conn |-> d, kind |-> "error", status |-> 0, body |-> NoBody, cause |-> c]

\* StatusCode::is_success
is_success(status) == 200 <= status /\ status < 300

canonical_reason(status) ==
  CASE status = 200 -> "OK"
    [] status = 401 -> "Unauthorized"
    [] OTHER -> "<unknown status code>"

\* Display of StatusCode
StatusDisplay(status) == <<ToString(status), " ", canonical_reason(status)>>

StatusErrorNoCode(status) == anyhow(<<"Groq API Error: ">>)

\* anyhow!("Groq API Error: {}", response.status())
StatusError(status) == anyhow(<<"Groq API Error: ">> \o StatusDisplay(status))

NoChoicesMessage == <<"Groq response contained no choices.">>

LastChoiceContent(choices) ==
  IF Len(choices) > 0
  THEN Ok(LLMResponse(choices[Len(choices)]))
  ELSE Err(anyhow(NoChoicesMessage))

EmptyContentForNoChoice(choices) ==
  IF Len(choices) > 0
  THEN Ok(LLMResponse(choices[1]))
  ELSE Ok(LLMResponse(<<>>))

\* groq_response.choices.get(0)
FirstChoiceContent(choices) ==
  IF Len(choices) > 0
  THEN Ok(LLMResponse(choices[1]))
  ELSE Err(anyhow(NoChoicesMessage))

\* response.json().await.context(..)? followed by the choice extraction
ParseBody(body) ==
  IF body.kind = "json"
  THEN FirstChoiceContent(body.choices)
  ELSE Err(context(anyhow(<<ParseCause>>), <<"Failed to parse Groq response">>))

\* What ask returns once its send has resolved to r.
AskResult(r) ==
  IF r.kind = "error"
  THEN Err(context(anyhow(<<r.cause>>), <<"Failed to send request to Groq API">>))
  ELSE IF is_success(r.status)
  THEN ParseBody(r.body)
  ELSE Err(StatusError(r.status))

\* .map_err(|e| e.to_string()) of ask_guardian
map_err_to_string(r) == IF r.ok THEN r ELSE Err(to_string(r.err))

AnyResponse(d) == responses

\* The response that the future of slot d's send resolves to: the one that
\* came back on its own connection.
Deliverable(d) == {r \in responses : r.conn = d}

(***************************************************************************)
(* State                                                                   *)
(***************************************************************************)
NoRequest == AppRequest(<<>>, "", None)

NoProviderRequest == ProviderRequest(<<>>, "")

NoResult == [ok |-> FALSE, value |-> LLMResponse(<<>>), err |-> <<>>]

Init ==
  /\ archetypes = main_archetypes
  /\ pc = [d \in Slots |-> "idle"]
  /\ request = [d \in Slots |-> NoRequest]
  /\ provider_request = [d \in Slots |-> NoProviderRequest]
  /\ response = [d \in Slots |-> NoResponse]
  /\ result = [d \in Slots |-> NoResult]
  /\ network = {}
  /\ responses = {}
  /\ askCount = [d \in Slots |-> 0]
  /\ sendCount = [d \in Slots |-> 0]

(***************************************************************************)
(* Actions                                                                 *)
(***************************************************************************)
\* ask_guardian from its entry to its first suspension (send().await), or to
\* its early return when the archetype is missing.
Dispatch(d, req) ==
  /\ pc[d] = "idle"
  /\ request' = [request EXCEPT ![d] = req]
  /\ LET found == get(archetypes, req.archetype) IN
     IF ~found.some
     THEN /\ result' = [result EXCEPT ![d] = Err(NotFoundMessage(req.archetype))]
          /\ pc' = [pc EXCEPT ![d] = "done"]
          /\ UNCHANGED <<provider_request, network, askCount, sendCount>>
     ELSE LET archetype == found.value
              pr == ProviderRequest(Compose(archetype, req), archetype.model_name)
          IN /\ provider_request' = [provider_request EXCEPT ![d] = pr]
             /\ askCount' = [askCount EXCEPT ![d] = @ + 1]
             /\ network' = network \cup {HttpPost(d, providers[archetype.provider], pr)}
             /\ sendCount' = [sendCount EXCEPT ![d] = @ + 1]
             /\ pc' = [pc EXCEPT ![d] = "send"]
             /\ UNCHANGED result
  /\ UNCHANGED <<archetypes, response, responses>>

\* The transport fails to carry the request of slot d.
TransportFail(d) ==
  \E m \in network, c \in TransportCauses :
    /\ m.conn = d
    /\ network' = network \ {m}
    /\ responses' = responses \cup {SendError(d, c)}
    /\ UNCHANGED <<archetypes, pc, request, provider_request, response, result,
                   askCount, sendCount>>

\* The vendor answers the request of slot d.
VendorRespond(d) ==
  \E m \in network, s \in Statuses, b \in Bodies :
    /\ m.conn = d
    /\ network' = network \ {m}
    /\ responses' = responses \cup {HttpResponse(d, s, b)}
    /\ UNCHANGED <<archetypes, pc, request, provider_request, response, result,
                   askCount, sendCount>>

\* send().await resumes: transport error, or the status check.
SendReturns(d) ==
  /\ pc[d] = "send"
  /\ \E r \in Deliverable(d) :
       /\ responses' = responses \ {r}
       /\ response' = [response EXCEPT ![d] = r]
       /\ IF r.kind = "http" /\ is_success(r.status)
          THEN /\ pc' = [pc EXCEPT ![d] = "json"]
               /\ UNCHANGED result
          ELSE /\ result' = [result EXCEPT ![d] = map_err_to_string(AskResult(r))]
               /\ pc' = [pc EXCEPT ![d] = "done"]
  /\ UNCHANGED <<archetypes, request, provider_request, network, askCount, sendCount>>

\* response.json().await resumes; ask returns and ask_guardian maps the error.
JsonReturns(d) ==
  /\ pc[d] = "json"
  /\ result' = [result EXCEPT ![d] = map_err_to_string(AskResult(response[d]))]
  /\ pc' = [pc EXCEPT ![d] = "done"]
  /\ UNCHANGED <<archetypes, request, provider_request, response, network, responses,
                 askCount, sendCount>>

\* The result goes back to the UI and the task of slot d ends.
Deliver(d) ==
  /\ pc[d] = "done"
  /\ pc' = [pc EXCEPT ![d] = "idle"]
  /\ request' = [request EXCEPT ![d] = NoRequest]
  /\ provider_request' = [provider_request EXCEPT ![d] = NoProviderRequest]
  /\ response' = [response EXCEPT ![d] = NoResponse]
  /\ result' = [result EXCEPT ![d] = NoResult]
  /\ askCount' = [askCount EXCEPT ![d] = 0]
  /\ sendCount' = [sendCount EXCEPT ![d] = 0]
  /\ UNCHANGED <<archetypes, network, responses>>

Next ==
  \E d \in Slots :
    \/ \E req \in Requests : Dispatch(d, req)
    \/ TransportFail(d)
    \/ VendorRespond(d)
    \/ SendReturns(d)
    \/ JsonReturns(d)
    \/ Deliver(d)

Spec == Init /\ [][Next]_vars

\* One dispatch at a time, over the wider set of requests.
NextCompose ==
  \/ \E req \in ComposeRequests : Dispatch(1, req)
  \/ TransportFail(1)
  \/ VendorRespond(1)
  \/ SendReturns(1)
  \/ JsonReturns(1)
  \/ Deliver(1)

SpecCompose == Init /\ [][NextCompose]_vars

(***************************************************************************)
(* Properties                                                              *)
(***************************************************************************)
Contains(text, tok) == \E i \in 1..Len(text) : text[i] = tok

IsPrefix(p, t) == Len(p) <= Len(t) /\ SubSeq(t, 1, Len(p)) = p

IsSuffix(q, t) == Len(q) <= Len(t) /\ SubSeq(t, Len(t) - Len(q) + 1, Len(t)) = q

Active(d) == pc[d] # "idle"

Found(d) == Active(d) /\ request[d].archetype \in DOMAIN archetypes

Missing(d) == Active(d) /\ request[d].archetype \notin DOMAIN archetypes

Success2xx(r) == r.kind = "http" /\ r.status \in 200..299

\* C1: a request whose archetype name is not a key of the registry ends
\* with the error "Archetype '<name>' not found." carrying the requested
\* name, and the provider is never asked and nothing is sent for it.
C1_UnknownArchetypeError ==
  \A d \in Slots :
    Missing(d) =>
      /\ pc[d] = "done"
      /\ result[d] = Err(<<"Archetype '", request[d].archetype, "' not found.">>)
      /\ askCount[d] = 0
      /\ sendCount[d] = 0
      /\ provider_request[d] = NoProviderRequest
      /\ \A m \in network : m.conn # d

C1_Witness ==
  \E d \in Slots :
    /\ pc[d] = "done"
    /\ request[d].archetype = "scout"
    /\ result[d] = Err(<<"Archetype '", "scout", "' not found.">>)

\* C2: the composed prompt holds the "User's Instructions" header if and
\* only if user_system_prompt is present and non-empty.
C2_InstructionsIffNonEmpty ==
  \A d \in Slots :
    Found(d) =>
      (Contains(provider_request[d].full_prompt, InstructionsHeader)
         <=> (request[d].user_system_prompt.some
              /\ request[d].user_system_prompt.value # <<>>))

\* C3: the composed prompt begins with the archetype's system prompt, ends
\* with the "User's Prompt" header followed by the request's prompt, and
\* what lies between the two is the "User's Instructions" section when
\* user instructions are included and nothing otherwise.
C3_SectionOrder ==
  \A d \in Slots :
    Found(d) =>
      LET fp == provider_request[d].full_prompt
          sys == archetypes[request[d].archetype].system_prompt
          last == <<PromptHeader>> \o request[d].prompt
          usp == request[d].user_system_prompt
      IN /\ IsPrefix(sys, fp)
         /\ IsSuffix(last, fp)
         /\ Len(fp) >= Len(sys) + Len(last)
         /\ SubSeq(fp, Len(sys) + 1, Len(fp) - Len(last))
              = IF usp.some THEN <<InstructionsHeader>> \o usp.value ELSE <<>>

C3_Witness ==
  \E d \in Slots :
    /\ Found(d)
    /\ request[d].user_system_prompt = Some(<<PromptHeader, "y">>)
    /\ request[d].prompt = <<PromptHeader, "x">>
    /\ Len(provider_request[d].full_prompt) = 7

\* C4: with several dispatches in flight, the request on each connection
\* holds the prompt and the model of the dispatch that opened it, every
\* dispatch reads the response of its own connection, and its result is the
\* outcome of that response.
C4_NoCrossContamination ==
  /\ \A m \in network :
       /\ Found(m.conn)
       /\ m.body.model = archetypes[request[m.conn].archetype].model_name
       /\ m.body.messages
            = << [role |-> "user",
                  content |-> Compose(archetypes[request[m.conn].archetype],
                                      request[m.conn])] >>
  /\ \A d \in Slots :
       /\ Found(d) =>
            provider_request[d]
              = ProviderRequest(Compose(archetypes[request[d].archetype], request[d]),
                                archetypes[request[d].archetype].model_name)
       /\ response[d].kind # "none" => response[d].conn = d
       /\ (Found(d) /\ pc[d] = "done") =>
            /\ response[d].kind # "none"
            /\ result[d] = map_err_to_string(AskResult(response[d]))

C4_Witness ==
  \E d, e \in Slots :
    /\ request[d].archetype = "Scout"
    /\ request[e].archetype = "Architect"
    /\ pc[d] = "done" /\ result[d].ok
    /\ pc[e] = "send" /\ HttpResponse(e, 401, MalformedBody) \in responses

\* C5: a success status with an empty choices list ends the dispatch with
\* the error "Groq response contained no choices.", never with a success.
C5_NoChoicesIsError ==
  \A d \in Slots :
    (pc[d] = "done" /\ Success2xx(response[d])
       /\ response[d].body.kind = "json" /\ response[d].body.choices = <<>>) =>
      /\ ~result[d].ok
      /\ result[d] = Err(<<"Groq response contained no choices.">>)

C5_Witness ==
  \E d \in Slots :
    /\ pc[d] = "done"
    /\ response[d] = HttpResponse(d, 200, JsonBody(<<>>))
    /\ ~result[d].ok

\* C6: a non-success status ends the dispatch with an error string that
\* holds the status code, whatever the body; the body of such a response is
\* never parsed.
C6_StatusErrorCarriesCode ==
  \A d \in Slots :
    (response[d].kind = "http" /\ response[d].status \notin 200..299) =>
      /\ pc[d] = "done"
      /\ ~result[d].ok
      /\ Contains(result[d].err, ToString(response[d].status))

C6_Witness ==
  \E d \in Slots :
    /\ pc[d] = "done"
    /\ response[d] = HttpResponse(d, 401, JsonBody(<< <<"hello">> >>))
    /\ ~result[d].ok

\* C7: a success status with a well-formed body of at least one choice
\* ends the dispatch with a success whose content is the content of the
\* first choice.
C7_FirstChoiceReturned ==
  \A d \in Slots :
    (pc[d] = "done" /\ Success2xx(response[d])
       /\ response[d].body.kind = "json" /\ Len(response[d].body.choices) >= 1) =>
      result[d] = Ok(LLMResponse(response[d].body.choices[1]))

C7_Witness ==
  \E d \in Slots :
    /\ pc[d] = "done"
    /\ response[d] = HttpResponse(d, 200, JsonBody(<< <<"hello">>, <<"bye">> >>))
    /\ result[d] = Ok(LLMResponse(<<"hello">>))

\* C8: after a transport failure or an unparsable success body the error
\* string of the dispatch holds the underlying cause, and the two kinds of
\* failure give different strings.
C8_ErrorCarriesCause ==
  /\ \A d \in Slots :
       pc[d] = "done" =>
         /\ response[d].kind = "error" => Contains(result[d].err, response[d].cause)
         /\ (Success2xx(response[d]) /\ response[d].body.kind = "malformed") =>
              Contains(result[d].err, ParseCause)
  /\ \A d, e \in Slots :
       (pc[d] = "done" /\ pc[e] = "done"
          /\ response[d].kind = "error" /\ response[e].kind = "http") =>
         result[d] # result[e]

RegistryAsBuilt ==
  /\ DOMAIN archetypes = {"Scout", "Architect"}
  /\ \A n \in DOMAIN archetypes :
       /\ archetypes[n].system_prompt # <<>>
       /\ archetypes[n].model_name # ""
       /\ archetypes[n].provider = "groq"
  /\ archetypes["Scout"].model_name = "llama3-8b-8192"
  /\ archetypes["Architect"].model_name = "llama3-70b-8192"

\* C9: in every reachable state the registry holds exactly "Scout" and
\* "Architect", each with a non-empty system prompt, a non-empty model name
\* and the one shared provider, and no step changes the registry.
C9_RegistryNeverMutated ==
  /\ []RegistryAsBuilt
  /\ [][archetypes' = archetypes]_vars

C9_Witness ==
  /\ RegistryAsBuilt
  /\ \E d, e \in Slots :
       /\ pc[d] = "done" /\ result[d].ok
       /\ pc[e] = "done" /\ Missing(e)

\* C10: a dispatch asks its provider once when the archetype is found and
\* never otherwise, an ask sends at most one HTTP request, and a finished
\* dispatch keeps its result, failed or not, without asking or sending again.
C10_SingleRoundTrip ==
  /\ [](\A d \in Slots :
          /\ askCount[d] = (IF Found(d) THEN 1 ELSE 0)
          /\ sendCount[d] <= askCount[d]
          /\ Cardinality({m \in network : m.conn = d})
               + Cardinality({r \in responses : r.conn = d}) <= sendCount[d]
          /\ (pc[d] = "done" /\ response[d].kind = "error") => ~result[d].ok)
  /\ [][\A d \in Slots :
          pc[d] = "done" =>
            \/ pc'[d] = "idle"
            \/ /\ pc'[d] = "done"
               /\ result'[d] = result[d]
               /\ askCount'[d] = askCount[d]
               /\ sendCount'[d] = sendCount[d]
               /\ \A m \in network' : m.conn # d]_vars

C10_Witness ==
  \E d, e \in Slots :
    /\ pc[d] = "done" /\ response[d].kind = "error" /\ askCount[d] = 1
    /\ pc[e] = "done" /\ Missing(e) /\ askCount[e] = 0

====
